---- MODULE Spec2Model ----
(***************************************************************************)
(* Verification model of the cerebras-hud request layer:                   *)
(*   - PredictionCache (utils/cache: TTL + Map-ordered eviction),          *)
(*   - hudClient fetch functions (cache lookup, backend call, cache fill), *)
(*   - the per-feature debounce timers and update functions.               *)
(***************************************************************************)
EXTENDS Integers, Sequences, FiniteSets, TLC

VARIABLES
    now,        \* Date.now(), milliseconds
    pc,         \* PredictionCache.cache of the cache under test: the Map, in insertion order
    pcMaxSize,  \* PredictionCache.maxSize
    pcTtlMs,    \* PredictionCache.ttlMs
    pcLast,     \* history: the last step (get, set, clear, tick) and its result
    pcUse,      \* history: keys of pc, least recently used first (use = get hit or set)
    caches,     \* hudClient: entropyCache, ghostCache, autopanicCache, saliencyCache
    calls,      \* backend calls in flight (fetch promises not yet settled)
    nFetch,     \* number of fetch* invocations made by a direct caller
    nTick,      \* number of clock steps taken by the client model
    nEvent,     \* number of editor events and commands the feature has seen
    fnIn,       \* the arguments of the last call of a pure function
    fnOut,      \* what that call returned
    cLast,      \* history: the last hudClient step and what it returned
    feat,       \* the feature module observed: entropy, ghost, saliency, hud or legacy
    phase,      \* extension life cycle: loaded, active, inactive
    editor,     \* vscode.window.activeTextEditor: none, or the languageId of its document
    docText,    \* editor.document.getText()
    cursor,     \* editor.selection.active.character (the documents have one line)
    enabled,    \* entropyEnabled / ghostEnabled / saliencyEnabled / hudEnabled
    demoMode,   \* unified HUD: demoMode
    usePrecomputed, \* unified HUD: usePrecomputed
    timers,     \* pending setTimeout callbacks of the feature, by deadline
    handle,     \* the feature's timeout variable (0: null, else the deadline of its timer)
    isAnalyzing,\* the feature's isAnalyzing flag
    upd,        \* the feature's update that is suspended at an await
    shown,      \* the decorations the feature displays and what they were rendered from
    deb,        \* history: the debounce calls and timer expiries of the feature
    fLast,      \* history: the last feature step
    demo        \* demoMode.ts: isRunning, abortController and the runs of the scripted demo

cacheVars == <<pc, pcMaxSize, pcTtlMs, pcLast, pcUse>>
clientVars == <<caches, calls, nFetch, nTick, cLast>>
docVars == <<editor, docText, cursor>>
modeVars == <<feat, phase, enabled, demoMode, usePrecomputed>>
timerVars == <<timers, handle, deb>>
updateVars == <<isAnalyzing, upd, shown, fLast>>
featureVars == <<nEvent, docVars, modeVars, timerVars, updateVars, demo>>
fnVars == <<fnIn, fnOut>>
vars == <<now, cacheVars, clientVars, featureVars, fnVars>>

----------------------------------------------------------------------------
\* Bounds of the cache model

MaxSize == 2
MaxTtl == 1
MaxClock == 1

CacheKeys == 1..(MaxSize + 1)
CacheValues == {[v |-> 1], [v |-> 2]}

\* get returns undefined
Miss == [undefined |-> TRUE]

----------------------------------------------------------------------------
\* PredictionCache: a JavaScript Map from key to {value, timestamp}.
\* A Map iterates in insertion order; it is modelled as a sequence of
\* [key, value, timestamp] with pairwise distinct keys.

MapHas(c, k) == \E i \in 1..Len(c) : c[i].key = k

MapIndex(c, k) == CHOOSE i \in 1..Len(c) : c[i].key = k

MapGet(c, k) == c[MapIndex(c, k)]

MapDelete(c, k) == SelectSeq(c, LAMBDA e : e.key # k)

\* Map.prototype.set: an existing key keeps its position, a new key is appended.
MapSet(c, k, e) ==
    IF MapHas(c, k) THEN [c EXCEPT ![MapIndex(c, k)] = e] ELSE Append(c, e)

\* Date.now() - entry.timestamp > this.ttlMs
Expired_Never(e, t, ttl) == FALSE
Expired(e, t, ttl) == t - e.timestamp > ttl

\* PredictionCache.get: the value returned
GetResult(c, k, t, ttl) ==
    IF ~MapHas(c, k) THEN Miss
    ELSE IF Expired(MapGet(c, k), t, ttl) THEN Miss
    ELSE MapGet(c, k).value

\* PredictionCache.get: the Map afterwards
GetEntries_RefreshTimestamp(c, k, t, ttl) ==
    IF ~MapHas(c, k) THEN c
    ELSE IF Expired(MapGet(c, k), t, ttl) THEN MapDelete(c, k)
    ELSE Append(MapDelete(c, k), [MapGet(c, k) EXCEPT !.timestamp = t])
GetEntries_KeepExpired(c, k, t, ttl) ==
    IF ~MapHas(c, k) THEN c
    ELSE IF Expired(MapGet(c, k), t, ttl) THEN c
    ELSE Append(MapDelete(c, k), MapGet(c, k))
GetEntries(c, k, t, ttl) ==
    IF ~MapHas(c, k) THEN c
    ELSE IF Expired(MapGet(c, k), t, ttl) THEN MapDelete(c, k)
    ELSE Append(MapDelete(c, k), MapGet(c, k))

\* PredictionCache.set: the Map after the eviction step
Evict_Never(c, k, maxSize) == c
Evict(c, k, maxSize) ==
    IF Len(c) >= maxSize /\ ~MapHas(c, k)
    THEN (IF Len(c) > 0 THEN MapDelete(c, c[1].key) ELSE c)
    ELSE c

\* PredictionCache.set: the Map afterwards
SetEntries(c, k, v, t, maxSize) ==
    MapSet(Evict(c, k, maxSize), k, [key |-> k, value |-> v, timestamp |-> t])

----------------------------------------------------------------------------
\* History of uses, as the least-recently-used discipline counts them:
\* a successful get and every set (insertion or overwrite) is a use.

UseTouch(u, k) == Append(SelectSeq(u, LAMBDA x : x # k), k)

UseRestrict(u, c) == SelectSeq(u, LAMBDA x : MapHas(c, x))

----------------------------------------------------------------------------
\* Strings are sequences of UTF-16 code units (charCodeAt).

NL == 10
COLON == 58
MINUS == 45

STR_ENTROPY == <<101, 110, 116, 114, 111, 112, 121>>
STR_GHOST == <<103, 104, 111, 115, 116>>
STR_AUTOPANIC == <<97, 117, 116, 111, 112, 97, 110, 105, 99>>
STR_SALIENCY == <<115, 97, 108, 105, 101, 110, 99, 121>>

RECURSIVE Concat(_)
Concat(ss) == IF ss = <<>> THEN <<>> ELSE Head(ss) \o Concat(Tail(ss))

\* String.prototype.split('\n')
RECURSIVE SplitLines(_)
SplitLines(str) ==
    IF \A i \in 1..Len(str) : str[i] # NL THEN <<str>>
    ELSE LET p == CHOOSE i \in 1..Len(str) :
                      str[i] = NL /\ \A j \in 1..(i - 1) : str[j] # NL
         IN  <<SubSeq(str, 1, p - 1)>> \o SplitLines(SubSeq(str, p + 1, Len(str)))

\* Array.prototype.join('\n')
RECURSIVE JoinLines(_)
JoinLines(lines) ==
    IF lines = <<>> THEN <<>>
    ELSE IF Len(lines) = 1 THEN lines[1]
    ELSE lines[1] \o <<NL>> \o JoinLines(Tail(lines))

Clamp(n, lo, hi) == IF n < lo THEN lo ELSE IF n > hi THEN hi ELSE n

\* String.prototype.substring(0, n): n is clamped to [0, length]
Substring0(str, n) == SubSeq(str, 1, Clamp(n, 0, Len(str)))

\* hudClient buildPrefix(lines, cursorLine, cursorChar); lines[i + 1] is line i
buildPrefix_ZeroIndexed(lines, cursorLine, cursorChar) ==
    LET targetLine == cursorLine
    IN  IF targetLine < 0 THEN <<>>
        ELSE IF targetLine >= Len(lines) THEN JoinLines(lines)
        ELSE JoinLines(Append(SubSeq(lines, 1, targetLine),
                              Substring0(lines[targetLine + 1], cursorChar)))
buildPrefix(lines, cursorLine, cursorChar) ==
    LET targetLine == cursorLine - 1
    IN  IF targetLine < 0 THEN <<>>
        ELSE IF targetLine >= Len(lines) THEN JoinLines(lines)
        ELSE JoinLines(Append(SubSeq(lines, 1, targetLine),
                              Substring0(lines[targetLine + 1], cursorChar)))

\* A 32-bit integer as two 16-bit limbs <<high, low>> (two's complement).
Limb == 65536

\* hash = ((hash << 5) - hash) + char; hash = hash & hash
HashStep(h, ch) ==
    LET lo == 31 * h[2] + ch
        hi == 31 * h[1] + (lo \div Limb)
    IN  <<hi % Limb, lo % Limb>>

RECURSIVE HashFrom(_, _)
HashFrom(h, str) == IF str = <<>> THEN h ELSE HashFrom(HashStep(h, Head(str)), Tail(str))

HexDigit(d) == IF d < 10 THEN 48 + d ELSE 87 + d

RECURSIVE HexOf(_)
HexOf(n) == IF n < 16 THEN <<HexDigit(n)>> ELSE Append(HexOf(n \div 16), HexDigit(n % 16))

Hex4(n) == <<HexDigit(n \div 4096), HexDigit((n \div 256) % 16),
             HexDigit((n \div 16) % 16), HexDigit(n % 16)>>

HexOfLimbs(h) == IF h[1] = 0 THEN HexOf(h[2]) ELSE HexOf(h[1]) \o Hex4(h[2])

\* Number.prototype.toString(16) of the signed 32-bit value
Int32ToString16(h) ==
    IF h[1] < Limb \div 2 THEN HexOfLimbs(h)
    ELSE <<MINUS>> \o HexOfLimbs(IF h[2] = 0 THEN <<Limb - h[1], 0>>
                                 ELSE <<Limb - 1 - h[1], Limb - h[2]>>)

\* utils/cache hashString(str)
hashString(str) == Int32ToString16(HashFrom(<<0, 0>>, str))

\* utils/cache makeCacheKey(feature, prefix)
makeCacheKey_NoTag(feature, prefix) == hashString(prefix)
makeCacheKey(feature, prefix) == feature \o <<COLON>> \o hashString(prefix)

\* Number to string in a template literal
RECURSIVE DecOf(_)
DecOf(n) == IF n < 10 THEN <<48 + n>> ELSE Append(DecOf(n \div 10), 48 + (n % 10))

NumberToString(n) == IF n < 0 THEN <<MINUS>> \o DecOf(0 - n) ELSE DecOf(n)

----------------------------------------------------------------------------
\* hudClient: four caches and the fetch functions

ENTROPY_CACHE_SIZE == 50
ENTROPY_CACHE_TTL == 1500
GHOST_CACHE_SIZE == 50
GHOST_CACHE_TTL == 1000
AUTOPANIC_CACHE_SIZE == 30
AUTOPANIC_CACHE_TTL == 800
SALIENCY_CACHE_SIZE == 10
SALIENCY_CACHE_TTL == 5000

CachedEndpoints == {"entropy", "ghost", "autopanic", "saliency"}

CacheMaxSize(ep) ==
    CASE ep = "entropy" -> ENTROPY_CACHE_SIZE
      [] ep = "ghost" -> GHOST_CACHE_SIZE
      [] ep = "autopanic" -> AUTOPANIC_CACHE_SIZE
      [] ep = "saliency" -> SALIENCY_CACHE_SIZE

CacheTtl(ep) ==
    CASE ep = "entropy" -> ENTROPY_CACHE_TTL
      [] ep = "ghost" -> GHOST_CACHE_TTL
      [] ep = "autopanic" -> AUTOPANIC_CACHE_TTL
      [] ep = "saliency" -> SALIENCY_CACHE_TTL

FeatureTag(ep) ==
    CASE ep = "entropy" -> STR_ENTROPY
      [] ep = "ghost" -> STR_GHOST
      [] ep = "autopanic" -> STR_AUTOPANIC
      [] ep = "saliency" -> STR_SALIENCY

\* A request: fetch*(code, uri, cursorLine, cursorChar)
Request(code, uri, cursorLine, cursorChar) ==
    [code |-> code, uri |-> uri, cursorLine |-> cursorLine, cursorChar |-> cursorChar]

PrefixOf(req) == buildPrefix(SplitLines(req.code), req.cursorLine, req.cursorChar)

\* The cache key each fetch function computes
KeyOf(ep, req) ==
    IF ep = "saliency"
    THEN makeCacheKey(STR_SALIENCY,
                      Concat(<<req.uri, <<COLON>>, NumberToString(req.cursorLine),
                               <<COLON>>, NumberToString(req.cursorChar)>>))
    ELSE makeCacheKey(FeatureTag(ep), PrefixOf(req))

\* The JSON body each fetch function posts
BodyOf(ep, req) ==
    IF ep \in {"saliency"}
    THEN [code |-> req.code, uri |-> req.uri,
          cursorLine |-> req.cursorLine, cursorChar |-> req.cursorChar]
    ELSE IF ep = "analyze"
    THEN [code |-> req.code, uri |-> req.uri]
    ELSE [prefix |-> PrefixOf(req), uri |-> req.uri]

\* The backend's answer to a body: a value determined by the body it answers
DataFor(ep, body) == [endpoint |-> ep, answers |-> body]

Null == [null |-> TRUE]

\* A JSON object that is not of the expected response type
Malformed == [malformed |-> TRUE]

\* Outcomes of a backend call: 2xx with a body of the expected shape, 2xx with
\* a JSON object of another shape, 2xx with a falsy JSON value (null), non-2xx
\* status, transport error (or a body that response.json() rejects)
Outcomes == {"ok", "shape", "falsy", "status", "error"}

\* response.ok
ResponseOk(outcome) == outcome \in {"ok", "shape", "falsy"}

\* await response.json(): the parsed body, typed as the response without a check
Json(call, outcome) ==
    CASE outcome = "ok" -> DataFor(call.ep, call.body)
      [] outcome = "shape" -> Malformed
      [] outcome = "falsy" -> Null

\* const cached = xCache.get(cacheKey)
LookupResult(cs, ep, req, t) == GetResult(cs[ep], KeyOf(ep, req), t, CacheTtl(ep))

LookupCaches(cs, ep, req, t) ==
    [cs EXCEPT ![ep] = GetEntries(cs[ep], KeyOf(ep, req), t, CacheTtl(ep))]

\* if (cached) return cached
Truthy_AnyEntry(v) == v # Miss
Truthy(v) == v # Miss /\ v # Null

\* if (!response.ok) throw ...; data = await response.json(); xCache.set(cacheKey, data)
StoreCaches_Never(cs, call, outcome, t) == cs
StoreCaches_Always(cs, call, outcome, t) ==
    [cs EXCEPT ![call.ep] = SetEntries(cs[call.ep], call.key,
                                       IF ResponseOk(outcome) THEN Json(call, outcome) ELSE Null,
                                       t, CacheMaxSize(call.ep))]
StoreCaches_SharedSize(cs, call, outcome, t) ==
    IF ResponseOk(outcome)
    THEN [ep \in CachedEndpoints |->
             IF ep = call.ep
             THEN SetEntries(cs[ep], call.key, Json(call, outcome), t, CacheMaxSize(ep))
             ELSE IF Len(cs[call.ep]) >= CacheMaxSize(call.ep) /\ cs[ep] # <<>>
             THEN Tail(cs[ep])
             ELSE cs[ep]]
    ELSE cs
StoreCaches(cs, call, outcome, t) ==
    IF ResponseOk(outcome)
    THEN [cs EXCEPT ![call.ep] = SetEntries(cs[call.ep], call.key, Json(call, outcome), t,
                                            CacheMaxSize(call.ep))]
    ELSE cs

\* return data / catch (err) { return null }
Returned(call, outcome) == IF ResponseOk(outcome) THEN Json(call, outcome) ELSE Null

\* The backend call a cache miss issues
\* awaited: the caller's continuation still waits for the promise
\* (analyze has no cache and hence no key)
CallKey(ep, req) == IF ep \in CachedEndpoints THEN KeyOf(ep, req) ELSE <<>>

NewCall(id, ep, req) ==
    [id |-> id, ep |-> ep, key |-> CallKey(ep, req), body |-> BodyOf(ep, req), awaited |-> TRUE]

SameCalls(cs, ep, req) == {c \in cs : c.ep = ep /\ c.key = CallKey(ep, req)}

FreeId(cs, ep, req) ==
    CHOOSE i \in 1..(Cardinality(cs) + 1) :
        /\ \A c \in SameCalls(cs, ep, req) : c.id # i
        /\ \A j \in 1..(i - 1) : \E c \in SameCalls(cs, ep, req) : c.id = j

\* clearCaches()
ClearedCaches == [ep \in CachedEndpoints |-> <<>>]

\* The caches that differ between two states of hudClient
Changed(old, new) == {ep \in CachedEndpoints : new[ep] # old[ep]}

----------------------------------------------------------------------------
\* Initial state of hudClient

\* cached: what xCache.get returned to a fetch; hit: the fetch returned it;
\* inFlight: the calls for the same endpoint and key in flight before the step;
\* changed: the caches whose contents, order or size the step changed
\* body: the JSON body of the request the fetch or call is for
NoClientOp == [op |-> "none", ep |-> "none", key |-> <<>>, body |-> Null, cached |-> Miss,
               hit |-> FALSE, result |-> Null, inFlight |-> 0, changed |-> {}]

NoArgs == [fn |-> "none"]

InitClientVars(cs) ==
    /\ fnIn = NoArgs
    /\ fnOut = Null
    /\ caches = cs
    /\ calls = {}
    /\ nFetch = 0
    /\ nTick = 0
    /\ cLast = NoClientOp

----------------------------------------------------------------------------
\* Initial state of a feature module (its module-level variables when loaded)

ENTROPY_DEBOUNCE_MS == 150
GHOST_DEBOUNCE_MS == 100
SALIENCY_DEBOUNCE_MS == 500
HUD_DEBOUNCE_MS == 50
LEGACY_DEBOUNCE_MS == 300

Features == {"entropy", "ghost", "saliency", "hud", "legacy"}

DebounceMs(f) ==
    CASE f = "entropy" -> ENTROPY_DEBOUNCE_MS
      [] f = "ghost" -> GHOST_DEBOUNCE_MS
      [] f = "saliency" -> SALIENCY_DEBOUNCE_MS
      [] f = "hud" -> HUD_DEBOUNCE_MS
      [] f = "legacy" -> LEGACY_DEBOUNCE_MS

\* (at, mode: the cursor position and demo mode the update read before its await)
NoUpdate == [active |-> FALSE, at |-> 0, mode |-> "normal", got |-> {}, superseded |-> FALSE]

Nothing == [visible |-> FALSE, data |-> {}, at |-> 0]

NoDebounce == [trig |-> -1, armed |-> -1, firedT |-> 0, firedA |-> 0, firedAt |-> -1,
               burst |-> FALSE]

\* (ep, key, outcome, result: the backend call that settled in the step, if any)
NoFeatOp == [op |-> "none", lookup |-> FALSE, delivered |-> FALSE, superseded |-> FALSE,
             blocked |-> FALSE, ep |-> "none", key |-> <<>>, outcome |-> "none",
             result |-> Null]

\* demoMode.ts: let isRunning = false; let abortController = null
\* (abortController: 0 is null, else the number of the controller; runs: the
\* executions of startDemo that have not returned; scripted: scripted
\* decorations are displayed; nStart: the startDemo commands so far)
NoDemo == [isRunning |-> FALSE, abortController |-> 0, runs |-> {}, scripted |-> FALSE,
           nStart |-> 0]

\* let saliencyEnabled = false; the other flags start true (legacy has no flag)
InitFeatureVars(f, ed, cd, cur) ==
    /\ feat = f
    /\ phase = "loaded"
    /\ editor = ed
    /\ docText = cd
    /\ cursor = cur
    /\ enabled = (f # "saliency")
    /\ demoMode = "normal"
    /\ usePrecomputed = FALSE
    /\ timers = {}
    /\ handle = 0
    /\ isAnalyzing = FALSE
    /\ upd = NoUpdate
    /\ shown = Nothing
    /\ deb = NoDebounce
    /\ fLast = NoFeatOp
    /\ nEvent = 0
    /\ demo = NoDemo

----------------------------------------------------------------------------
\* The cache under test: one PredictionCache(maxSize, ttlMs) and a clock

\* pos: the key's position in the Map before the operation (0: absent);
\* age: Date.now() - entry.timestamp of the entry a get found (0 otherwise);
\* evicted: the key the eviction step of set removed (0: none).
NoOp == [op |-> "new", key |-> 0, result |-> Miss, pos |-> 0, age |-> 0, evicted |-> 0]

PosOf(c, k) == IF MapHas(c, k) THEN MapIndex(c, k) ELSE 0

AgeOf(c, k, t) == IF MapHas(c, k) THEN t - MapGet(c, k).timestamp ELSE 0

EvictedKey(c, k, maxSize) ==
    IF Len(Evict(c, k, maxSize)) < Len(c) THEN c[1].key ELSE 0

InitCache ==
    /\ now = 0
    /\ pc = <<>>
    /\ pcMaxSize \in 1..MaxSize
    /\ pcTtlMs \in 0..MaxTtl
    /\ pcLast = NoOp
    /\ pcUse = <<>>
    /\ InitClientVars(ClearedCaches)
    /\ InitFeatureVars("entropy", "none", <<97>>, 0)

CacheGet(k) ==
    /\ pc' = GetEntries(pc, k, now, pcTtlMs)
    /\ pcLast' = [op |-> "get", key |-> k, result |-> GetResult(pc, k, now, pcTtlMs),
                  pos |-> PosOf(pc, k), age |-> AgeOf(pc, k, now), evicted |-> 0]
    /\ pcUse' = UseRestrict(IF GetResult(pc, k, now, pcTtlMs) # Miss
                            THEN UseTouch(pcUse, k) ELSE pcUse, pc')
    /\ UNCHANGED <<now, pcMaxSize, pcTtlMs, fnVars, clientVars, featureVars>>

CacheSet(k, v) ==
    /\ pc' = SetEntries(pc, k, v, now, pcMaxSize)
    /\ pcLast' = [op |-> "set", key |-> k, result |-> v, pos |-> PosOf(pc, k), age |-> 0,
                  evicted |-> EvictedKey(pc, k, pcMaxSize)]
    /\ pcUse' = UseRestrict(UseTouch(pcUse, k), pc')
    /\ UNCHANGED <<now, pcMaxSize, pcTtlMs, fnVars, clientVars, featureVars>>

CacheClear ==
    /\ pc' = <<>>
    /\ pcLast' = [NoOp EXCEPT !.op = "clear"]
    /\ pcUse' = <<>>
    /\ UNCHANGED <<now, pcMaxSize, pcTtlMs, fnVars, clientVars, featureVars>>

CacheTick ==
    /\ now < MaxClock
    /\ now' = now + 1
    /\ pcLast' = [NoOp EXCEPT !.op = "tick"]
    /\ UNCHANGED <<pc, pcMaxSize, pcTtlMs, pcUse, fnVars, clientVars, featureVars>>

NextCache ==
    \/ \E k \in CacheKeys : CacheGet(k)
    \/ \E k \in CacheKeys, v \in CacheValues : CacheSet(k, v)
    \/ CacheClear
    \/ CacheTick

SpecCache == InitCache /\ [][NextCache]_vars

----------------------------------------------------------------------------
\* hudClient driven directly by its callers: any fetch function may be called
\* at any time, also while earlier calls are in flight.

MaxFetches == 2
MaxClientTicks == 1

Codes == {<<97>>, <<98>>}
URI == <<102>>
\* (two texts with the cursor after their first character, one also with the
\* cursor before it)
ClientRequests ==
    {Request(c, URI, 1, 1) : c \in Codes} \cup {Request(<<97>>, URI, 1, 0)}

InitClient ==
    /\ now = 0
    /\ pc = <<>>
    /\ pcMaxSize = 1
    /\ pcTtlMs = 0
    /\ pcLast = NoOp
    /\ pcUse = <<>>
    /\ InitClientVars(ClearedCaches)
    /\ InitFeatureVars("entropy", "none", <<97>>, 0)

\* fetchEntropy / fetchGhost / fetchAutopanic / fetchSaliency, up to the first await
ClientFetch(ep, req) ==
    /\ nFetch < MaxFetches
    /\ nFetch' = nFetch + 1
    /\ caches' = LookupCaches(caches, ep, req, now)
    /\ LET cached == LookupResult(caches, ep, req, now)
           same == SameCalls(calls, ep, req)
       IN  /\ calls' = IF Truthy(cached) THEN calls
                       ELSE calls \cup {NewCall(FreeId(calls, ep, req), ep, req)}
           /\ cLast' = [op |-> "fetch", ep |-> ep, key |-> KeyOf(ep, req),
                        body |-> BodyOf(ep, req), cached |-> cached, hit |-> Truthy(cached),
                        result |-> IF Truthy(cached) THEN cached ELSE Null,
                        inFlight |-> Cardinality(same),
                        changed |-> Changed(caches, LookupCaches(caches, ep, req, now))]
    /\ UNCHANGED <<now, fnVars, cacheVars, nTick, featureVars>>

\* The backend call settles and the fetch function resumes after its await
ClientSettle(call, outcome) ==
    /\ call \in calls
    /\ calls' = calls \ {call}
    /\ caches' = StoreCaches(caches, call, outcome, now)
    /\ cLast' = [op |-> outcome, ep |-> call.ep, key |-> call.key, body |-> call.body,
                 cached |-> Miss,
                 hit |-> FALSE, result |-> Returned(call, outcome),
                 inFlight |-> Cardinality({c \in calls : c.ep = call.ep /\ c.key = call.key}),
                 changed |-> Changed(caches, StoreCaches(caches, call, outcome, now))]
    /\ UNCHANGED <<now, fnVars, cacheVars, nFetch, nTick, featureVars>>

\* clearCaches()
ClientClear_KeepSaliency ==
    /\ caches # ClearedCaches
    /\ caches' = [ClearedCaches EXCEPT !["saliency"] = caches["saliency"]]
    /\ cLast' = [NoClientOp EXCEPT !.op = "clear", !.changed = Changed(caches, caches')]
    /\ UNCHANGED <<now, fnVars, cacheVars, calls, nFetch, nTick, featureVars>>
ClientClear ==
    /\ caches # ClearedCaches
    /\ caches' = ClearedCaches
    /\ cLast' = [NoClientOp EXCEPT !.op = "clear", !.changed = Changed(caches, ClearedCaches)]
    /\ UNCHANGED <<now, fnVars, cacheVars, calls, nFetch, nTick, featureVars>>

\* Time passes while some cache holds an entry: one millisecond, or just more
\* than the ttl of a cache in use (only differences to timestamps are observed)
ClientTick(d) ==
    /\ nTick < MaxClientTicks
    /\ nTick' = nTick + 1
    /\ now' = now + d
    /\ cLast' = [NoClientOp EXCEPT !.op = "tick"]
    /\ UNCHANGED <<fnVars, cacheVars, caches, calls, nFetch, featureVars>>

NextClient ==
    \/ \E ep \in CachedEndpoints, req \in ClientRequests : ClientFetch(ep, req)
    \/ \E call \in calls, outcome \in Outcomes : ClientSettle(call, outcome)
    \/ ClientClear
    \/ \E ep \in {e \in CachedEndpoints : caches[e] # <<>>} :
          \E d \in {1, CacheTtl(ep) + 1} : ClientTick(d)

SpecClient == InitClient /\ [][NextClient]_vars

\* hudClient after a session in which the cursor has visited the positions
\* 2 .. SALIENCY_CACHE_SIZE + 1 of a one-line document: the saliency cache is
\* full, each other cache holds an entry
FilledCode == [i \in 1..(SALIENCY_CACHE_SIZE + 1) |-> 97]

FilledEntry(ep, req) ==
    [key |-> KeyOf(ep, req), value |-> DataFor(ep, BodyOf(ep, req)), timestamp |-> 0]

FilledCaches ==
    [ep \in CachedEndpoints |->
        IF ep = "saliency"
        THEN [i \in 1..SALIENCY_CACHE_SIZE |-> FilledEntry(ep, Request(FilledCode, URI, 1, i + 1))]
        ELSE <<FilledEntry(ep, Request(FilledCode, URI, 1, 2))>>]

InitFilled ==
    /\ now = 0
    /\ pc = <<>>
    /\ pcMaxSize = 1
    /\ pcTtlMs = 0
    /\ pcLast = NoOp
    /\ pcUse = <<>>
    /\ InitClientVars(FilledCaches)
    /\ InitFeatureVars("entropy", "none", <<97>>, 0)

\* The outcomes explored from the filled caches: a response that is stored
\* and one that is not
FilledOutcomes == {"ok", "error"}

\* The requests made from there: at a position whose answers are cached and
\* at one whose answers are not
FilledRequests == {Request(FilledCode, URI, 1, c) : c \in 1..2}

\* (time passes until the entries of the shortest-lived cache, or of all
\* caches, have expired)
NextFilled ==
    \/ \E ep \in CachedEndpoints, req \in FilledRequests : ClientFetch(ep, req)
    \/ \E call \in calls, outcome \in FilledOutcomes : ClientSettle(call, outcome)
    \/ \E ep \in {"autopanic", "saliency"} : ClientTick(CacheTtl(ep) + 1)

SpecFilled == InitFilled /\ [][NextFilled]_vars

----------------------------------------------------------------------------
\* A feature module in the running extension: editor events, debounce timer,
\* update function, backend completions.  One feature is observed per
\* behaviour (feat); the feature modules share no variables.

MaxWindows == 2
MaxEvents == 2

\* (of the DemoMode type, the value that is not a demo and one that is)
DemoModes == {"normal", "focus"}

\* the code of PRECOMPUTED_DATA
PrecomputedCode == <<97>>

\* The unified HUD awaits three backend calls per update: it is explored over
\* one debounce window, on a coarser clock and with one event less than the lenses
Horizon == IF feat = "hud" THEN DebounceMs(feat) ELSE DebounceMs(feat) * MaxWindows

Step == IF feat = "hud" THEN DebounceMs(feat) ELSE DebounceMs(feat) \div 2

EventBudget == IF feat = "hud" THEN MaxEvents - 1 ELSE MaxEvents

\* debouncedSaliencyUpdate: if (!saliencyEnabled) return;  debouncedUpdate: if (!hudEnabled) return;
GateOpen(f, en) == f \in {"saliency", "hud"} => en

\* if (timeout) clearTimeout(timeout); timeout = setTimeout(..., DEBOUNCE_MS)
DebouncedTimers_NoClear(ts, h, t, w) == ts \cup {t + w}
DebouncedTimers_KeepFirst(ts, h, t, w) == IF ts = {} THEN {t + w} ELSE ts
DebouncedTimers(ts, h, t, w) == (IF h # 0 THEN ts \ {h} ELSE ts) \cup {t + w}

\* The debounced function of the feature is called
Debounce(en) ==
    IF GateOpen(feat, en)
    THEN /\ timers' = DebouncedTimers(timers, handle, now, DebounceMs(feat))
         /\ handle' = now + DebounceMs(feat)
         /\ deb' = [trig |-> now, armed |-> now, firedT |-> 0, firedA |-> 0,
                    firedAt |-> -1, burst |-> timers # {}]
    ELSE /\ UNCHANGED <<timers, handle>>
         /\ deb' = [deb EXCEPT !.trig = now, !.firedT = 0]

\* The endpoints an update of the feature awaits
Endpoints(f) ==
    CASE f = "entropy" -> {"entropy"}
      [] f = "ghost" -> {"ghost"}
      [] f = "saliency" -> {"saliency"}
      [] f = "hud" -> {"analyze", "ghost", "saliency"}
      [] f = "legacy" -> {"analyze"}

\* The early returns of highlightEntropy / updateGhostToken / updateSaliency /
\* updateHud / highlight
UpdateBlocked_NoBusyCheck(f, en, busy, ed) ==
    \/ (f # "legacy" /\ ~en)
    \/ ed = "none"
    \/ (f = "hud" /\ ed # "python")
UpdateBlocked(f, en, busy, ed) ==
    \/ (f # "legacy" /\ ~en)
    \/ busy
    \/ ed = "none"
    \/ (f = "hud" /\ ed # "python")

\* updateHud: the branches that render precomputed data and call no backend
PrecomputedPath(f, mode, useP, cd) ==
    /\ f = "hud"
    /\ useP
    /\ (mode # "normal" \/ cd = PrecomputedCode)

\* What the update renders once all awaited results are in
\* (entropy, ghost, saliency: if (!data) return; hud, legacy: clear and render)
Delivers_Always(f, got) == TRUE
Delivers(f, got) == f \in {"hud", "legacy"} \/ \A g \in got : g[2] # Null

\* updateHud: showEntropy / showSidebar, showGhost, showSaliency
ShowsResult(mode, ep) ==
    CASE ep = "analyze" -> mode \notin {"baseline", "focus"}
      [] ep = "ghost" -> mode \in {"ghost", "entropy", "normal"}
      [] ep = "saliency" -> mode = "saliency"

\* The results an update passes to its render functions
Visible(f, mode, got) == IF f = "hud" THEN {g \in got : ShowsResult(mode, g[1])} ELSE got

Rendered(f, got, at, old) ==
    IF Delivers(f, got) THEN [visible |-> TRUE, data |-> got, at |-> at] ELSE old

\* The update function of the feature runs, up to its first await
\* (ed, cd, cur, en, mode, useP: the state it reads; old: the decorations shown)
RunUpdate(opname, ed, cd, cur, en, mode, useP, old) ==
    LET req == Request(cd, URI, 1, cur)
        eps == Endpoints(feat)
        hits == {ep \in eps \cap CachedEndpoints : Truthy(LookupResult(caches, ep, req, now))}
        misses == eps \ hits
        got0 == {<<ep, LookupResult(caches, ep, req, now)>> : ep \in hits}
        looked == [ep \in CachedEndpoints |->
                      IF ep \in eps THEN LookupCaches(caches, ep, req, now)[ep]
                      ELSE caches[ep]]
    IN  IF UpdateBlocked(feat, en, isAnalyzing, ed)
        THEN /\ fLast' = [NoFeatOp EXCEPT !.op = opname, !.blocked = TRUE]
             /\ shown' = old
             /\ UNCHANGED <<caches, calls, isAnalyzing, upd>>
        ELSE IF PrecomputedPath(feat, mode, useP, cd)
        THEN /\ shown' = [visible |-> TRUE, data |-> {<<"precomputed", mode>>}, at |-> cur]
             /\ fLast' = [NoFeatOp EXCEPT !.op = opname, !.delivered = TRUE]
             /\ UNCHANGED <<caches, calls, isAnalyzing, upd>>
        ELSE IF misses = {}
        THEN /\ caches' = looked
             /\ shown' = Rendered(feat, Visible(feat, mode, got0), cur, old)
             /\ fLast' = [NoFeatOp EXCEPT !.op = opname, !.lookup = TRUE,
                                          !.delivered = Delivers(feat, got0)]
             /\ UNCHANGED <<calls, isAnalyzing, upd>>
        ELSE /\ caches' = looked
             /\ calls' = calls \cup {NewCall(FreeId(calls, ep, req), ep, req) : ep \in misses}
             /\ isAnalyzing' = TRUE
             /\ upd' = [active |-> TRUE, at |-> cur, mode |-> mode, got |-> got0,
                      superseded |-> FALSE]
             /\ shown' = old
             /\ fLast' = [NoFeatOp EXCEPT !.op = opname, !.lookup = TRUE]

\* An event that is a new trigger for the feature supersedes its suspended update
Supersede(u) == IF u.active THEN [u EXCEPT !.superseded = TRUE] ELSE u

TriggerOnly(opname) ==
    /\ upd' = Supersede(upd)
    /\ fLast' = [NoFeatOp EXCEPT !.op = opname]
    /\ UNCHANGED <<caches, calls, isAnalyzing, shown>>

InitFeature ==
    /\ now = 0
    /\ pc = <<>>
    /\ pcMaxSize = 1
    /\ pcTtlMs = 0
    /\ pcLast = NoOp
    /\ pcUse = <<>>
    /\ InitClientVars(ClearedCaches)
    /\ \E f \in Features, ed \in {"none", "python"} : InitFeatureVars(f, ed, <<97>>, 0)

\* activate(): legacy highlight(); activateEntropyLens: debouncedEntropyHighlight();
\* activateUnifiedHud: loadPrecomputedData(); updateHud()
Activate ==
    /\ phase = "loaded"
    /\ phase' = "active"
    /\ usePrecomputed' \in (IF feat = "hud" THEN BOOLEAN ELSE {FALSE})
    /\ IF feat \in {"legacy", "hud"}
       THEN /\ RunUpdate("activate", editor, docText, cursor, enabled, demoMode,
                         usePrecomputed', shown)
            /\ UNCHANGED timerVars
       ELSE IF feat = "entropy"
       THEN /\ Debounce(enabled)
            /\ fLast' = [NoFeatOp EXCEPT !.op = "activate"]
            /\ UNCHANGED <<caches, calls, isAnalyzing, upd, shown>>
       ELSE /\ fLast' = [NoFeatOp EXCEPT !.op = "activate"]
            /\ UNCHANGED <<caches, calls, isAnalyzing, upd, shown, timerVars>>
    /\ UNCHANGED <<nEvent, now, fnVars, demo, cacheVars, nFetch, nTick, cLast, docVars, feat, enabled,
                   demoMode>>

\* onDidChangeTextDocument: every feature's debounced function is called
ContentChange(cd) ==
    /\ phase = "active"
    /\ editor # "none"
    /\ cd # docText
    /\ docText' = cd
    /\ Debounce(enabled)
    /\ TriggerOnly("change")
    /\ nEvent < EventBudget
    /\ nEvent' = nEvent + 1
    /\ UNCHANGED <<now, fnVars, demo, cacheVars, nFetch, nTick, cLast, editor, cursor, modeVars>>

\* onDidChangeTextEditorSelection: entropy, ghost and hud debounce; saliency and
\* legacy do not listen
CursorMove(cur) ==
    /\ phase = "active"
    /\ editor # "none"
    /\ cur # cursor
    /\ cursor' = cur
    /\ IF feat \in {"entropy", "ghost", "hud"}
       THEN Debounce(enabled) /\ TriggerOnly("move")
       ELSE /\ fLast' = [NoFeatOp EXCEPT !.op = "move"]
            /\ UNCHANGED <<timerVars, caches, calls, isAnalyzing, upd, shown>>
    /\ nEvent < EventBudget
    /\ nEvent' = nEvent + 1
    /\ UNCHANGED <<now, fnVars, demo, cacheVars, nFetch, nTick, cLast, editor, docText, modeVars>>

\* onDidChangeActiveTextEditor: legacy highlight() and updateHud() run at once,
\* entropy, ghost and saliency debounce
\* (the editor switched to has its cursor at the start of its document)
EditorSwitch(ed, cd) ==
    /\ phase = "active"
    /\ ed # editor
    /\ editor' = ed
    /\ docText' = cd
    /\ cursor' = 0
    /\ IF feat \in {"legacy", "hud"}
       THEN /\ RunUpdate("switch", ed, cd, 0, enabled, demoMode, usePrecomputed, shown)
            /\ UNCHANGED timerVars
       ELSE Debounce(enabled) /\ TriggerOnly("switch")
    /\ nEvent < EventBudget
    /\ nEvent' = nEvent + 1
    /\ UNCHANGED <<now, fnVars, demo, cacheVars, nFetch, nTick, cLast, modeVars>>

\* toggleEntropy / toggleGhost / toggleSaliency / toggleHud
Toggle ==
    /\ phase = "active"
    /\ feat # "legacy"
    /\ enabled' = ~enabled
    /\ IF editor # "none" /\ ~enabled'
       THEN /\ shown' = Nothing
            /\ fLast' = [NoFeatOp EXCEPT !.op = "toggle"]
            /\ UNCHANGED <<timerVars, caches, calls, isAnalyzing, upd>>
       ELSE IF editor # "none" /\ feat \in {"entropy", "hud"}
       THEN /\ RunUpdate("toggle", editor, docText, cursor, enabled', demoMode,
                         usePrecomputed, shown)
            /\ UNCHANGED timerVars
       ELSE IF editor # "none" /\ feat = "saliency"
       THEN /\ Debounce(enabled')
            /\ fLast' = [NoFeatOp EXCEPT !.op = "toggle"]
            /\ UNCHANGED <<caches, calls, isAnalyzing, upd, shown>>
       ELSE /\ fLast' = [NoFeatOp EXCEPT !.op = "toggle"]
            /\ UNCHANGED <<timerVars, caches, calls, isAnalyzing, upd, shown>>
    /\ nEvent < EventBudget
    /\ nEvent' = nEvent + 1
    /\ UNCHANGED <<now, fnVars, demo, cacheVars, nFetch, nTick, cLast, docVars, feat, phase, demoMode,
                   usePrecomputed>>

\* runSaliencyNow
RunSaliencyNow ==
    /\ phase = "active"
    /\ feat = "saliency"
    /\ enabled' = TRUE
    /\ Debounce(TRUE)
    /\ fLast' = [NoFeatOp EXCEPT !.op = "runNow"]
    /\ nEvent < EventBudget
    /\ nEvent' = nEvent + 1
    /\ UNCHANGED <<now, fnVars, demo, cacheVars, clientVars, docVars, feat, phase, demoMode,
                   usePrecomputed, isAnalyzing, upd, shown>>

\* setDemoMode(mode): clearDecorations(editor); updateHud()
SetDemoMode(mode) ==
    /\ phase = "active"
    /\ feat = "hud"
    /\ mode # demoMode
    /\ demoMode' = mode
    /\ IF editor # "none"
       THEN RunUpdate("setDemoMode", editor, docText, cursor, enabled, mode,
                      usePrecomputed, Nothing)
       ELSE /\ fLast' = [NoFeatOp EXCEPT !.op = "setDemoMode"]
            /\ UNCHANGED <<caches, calls, isAnalyzing, upd, shown>>
    /\ nEvent < EventBudget
    /\ nEvent' = nEvent + 1
    /\ UNCHANGED <<now, fnVars, demo, cacheVars, nFetch, nTick, cLast, docVars, feat, phase, enabled,
                   usePrecomputed, timerVars>>

\* A setTimeout callback that is due runs the update function
TimerFire(d) ==
    /\ d \in timers
    /\ d <= now
    /\ timers' = timers \ {d}
    /\ handle' = handle
    /\ deb' = [deb EXCEPT !.firedT = IF @ < 2 THEN @ + 1 ELSE @,
                          !.firedA = IF @ < 2 THEN @ + 1 ELSE @,
                          !.firedAt = now]
    /\ RunUpdate("expire", editor, docText, cursor, enabled, demoMode, usePrecomputed, shown)
    /\ UNCHANGED <<nEvent, now, fnVars, demo, cacheVars, nFetch, nTick, cLast, docVars, modeVars>>

\* The value an awaited promise settles with: fetch* return data or null,
\* analyze returns data or throws
Throw == [throw |-> TRUE]

Settled(call, outcome) ==
    IF ResponseOk(outcome) THEN Json(call, outcome)
    ELSE IF call.ep = "analyze" THEN Throw ELSE Null

Orphaned(cs) == {[c EXCEPT !.awaited = FALSE] : c \in cs}

\* finally { isAnalyzing = false }: the flag when the update function returns,
\* normally or through its catch block
AnalyzingAfterReturn_NoFinally(threw) == threw
AnalyzingAfterReturn(threw) == FALSE

\* A backend call of the feature settles: the fetch function fills its cache
\* and the update resumes when everything it awaits is in
FeatSettle(call, outcome) ==
    /\ call \in calls
    /\ caches' = IF call.ep \in CachedEndpoints
                 THEN StoreCaches(caches, call, outcome, now) ELSE caches
    /\ LET rest == calls \ {call}
           done == [NoFeatOp EXCEPT !.ep = call.ep, !.key = call.key, !.outcome = outcome,
                                    !.result = Settled(call, outcome)]
           waiting == {c \in rest : c.awaited}
           got1 == upd.got \cup {<<call.ep, Settled(call, outcome)>>}
       IN  IF ~call.awaited
           THEN /\ calls' = rest
                /\ fLast' = [done EXCEPT !.op = "orphan"]
                /\ UNCHANGED <<isAnalyzing, upd, shown>>
           ELSE IF Settled(call, outcome) = Throw
           THEN /\ calls' = Orphaned(rest)
                /\ isAnalyzing' = AnalyzingAfterReturn(TRUE)
                /\ upd' = NoUpdate
                /\ shown' = shown
                /\ fLast' = [done EXCEPT !.op = "throw", !.superseded = upd.superseded]
           ELSE IF waiting # {}
           THEN /\ calls' = rest
                /\ upd' = [upd EXCEPT !.got = got1]
                /\ fLast' = [done EXCEPT !.op = "partial"]
                /\ UNCHANGED <<isAnalyzing, shown>>
           ELSE /\ calls' = rest
                /\ isAnalyzing' = AnalyzingAfterReturn(FALSE)
                /\ upd' = NoUpdate
                /\ shown' = Rendered(feat, Visible(feat, upd.mode, got1), upd.at, shown)
                /\ fLast' = [done EXCEPT !.op = "resume",
                                         !.delivered = Delivers(feat, got1),
                                         !.superseded = upd.superseded]
    /\ UNCHANGED <<nEvent, now, fnVars, demo, cacheVars, nFetch, nTick, cLast, docVars, modeVars,
                   timerVars>>

\* The backend outcomes explored under the feature modules: a response of the
\* expected shape, a non-2xx status, a transport error
FeatureOutcomes == {"ok", "status", "error"}

Earliest(ts) == CHOOSE d \in ts : \A e \in ts : d <= e

\* Time passes, up to the next timer deadline; a due timer fires first
FeatTick ==
    /\ phase # "loaded"
    /\ \A d \in timers : d > now
    /\ now < Horizon
    /\ now' = IF timers # {} /\ Earliest(timers) < now + Step
              THEN Earliest(timers) ELSE now + Step
    /\ fLast' = [NoFeatOp EXCEPT !.op = "tick"]
    /\ UNCHANGED <<nEvent, fnVars, demo, cacheVars, clientVars, docVars, modeVars, timerVars, isAnalyzing,
                   upd, shown>>

NextFeature ==
    \/ Activate
    \/ \E cd \in Codes : ContentChange(cd)
    \/ \E cur \in 0..1 : CursorMove(cur)
    \/ \E ed \in {"none", "python", "plaintext"}, cd \in Codes : EditorSwitch(ed, cd)
    \/ Toggle
    \/ RunSaliencyNow
    \/ \E mode \in DemoModes : SetDemoMode(mode)
    \/ \E d \in timers : TimerFire(d)
    \/ \E call \in calls, outcome \in FeatureOutcomes : FeatSettle(call, outcome)
    \/ FeatTick

SpecFeature == InitFeature /\ [][NextFeature]_vars

\* Every backend call eventually resolves or rejects
FairFeature ==
    SpecFeature /\ WF_vars(\E call \in calls, outcome \in FeatureOutcomes : FeatSettle(call, outcome))

\* stopDemo: if (abortController) abortController.abort(); isRunning = false
\* (abort() sets the signal of the run that was started with this controller)
Stopped_KeepRunning(d) ==
    [d EXCEPT !.runs = {[r EXCEPT !.aborted = @ \/ r.id = d.abortController] : r \in @}]
Stopped(d) ==
    [d EXCEPT !.runs = {[r EXCEPT !.aborted = @ \/ r.id = d.abortController] : r \in @},
              !.isRunning = FALSE]

\* deactivate(): if (timeout) clearTimeout(timeout), in extension.ts and in the
\* deactivate function of each feature module (the variable keeps the handle
\* of a timer that has fired; clearing that one has no effect)
ClearedTimers_Keep(ts, h) == ts
ClearedTimers(ts, h) == IF h # 0 THEN ts \ {h} ELSE ts

\* The extension is deactivated: its subscriptions (event listeners, commands)
\* are disposed, so that no further event reaches the feature; promises of
\* backend calls in flight still settle.
\* deactivateUnifiedHud also clears the decorations of the active editor, and
\* deactivateDemoMode calls stopDemo.
Deactivate ==
    /\ phase = "active"
    /\ phase' = "inactive"
    /\ timers' = ClearedTimers(timers, handle)
    /\ shown' = IF feat = "hud" /\ editor # "none" THEN Nothing ELSE shown
    /\ fLast' = [NoFeatOp EXCEPT !.op = "deactivate"]
    /\ demo' = IF feat = "hud" THEN Stopped(demo) ELSE demo
    /\ UNCHANGED <<nEvent, now, fnVars, cacheVars, clientVars, docVars, feat, enabled, demoMode,
                   usePrecomputed, handle, deb, isAnalyzing, upd>>

NextLifecycle ==
    \/ NextFeature
    \/ Deactivate

SpecLifecycle == InitFeature /\ [][NextLifecycle]_vars

----------------------------------------------------------------------------
\* The scripted demo (features/demoMode.ts) next to the unified HUD, whose
\* commands it executes

MaxDemoStarts == 2

\* DEMO_SCENES, abridged: its first three scenes and a highlight scene
DemoScript ==
    << [action |-> "pause", mode |-> "none"],
       [action |-> "mode", mode |-> "baseline"],
       [action |-> "type", mode |-> "none"],
       [action |-> "highlight", mode |-> "none"] >>

\* An execution of startDemo past its early returns. at = 0: it awaits the
\* editor.edit that deletes the document; at = k: it is about to test
\* signal.aborted before scene k, or to leave the loop after the last scene
NewRun(id) == [id |-> id, aborted |-> FALSE, at |-> 0]

\* cerebrasHud.setDemoMode executed by the demo: setDemoMode(mode) of the HUD
ApplyDemoMode(mode) ==
    /\ demoMode' = mode
    /\ IF editor # "none"
       THEN RunUpdate("setDemoMode", editor, docText, cursor, enabled, mode,
                      usePrecomputed, Nothing)
       ELSE /\ fLast' = [NoFeatOp EXCEPT !.op = "setDemoMode"]
            /\ UNCHANGED <<caches, calls, isAnalyzing, upd, shown>>

\* An edit of the demo is applied to the document: onDidChangeTextDocument
\* calls debouncedUpdate of the HUD
DocEdited(cd, cur) ==
    /\ docText' = cd
    /\ cursor' = cur
    /\ IF cd # docText
       THEN Debounce(enabled) /\ TriggerOnly("change")
       ELSE /\ fLast' = [NoFeatOp EXCEPT !.op = "demo"]
            /\ UNCHANGED <<timerVars, caches, calls, isAnalyzing, upd, shown>>
    /\ UNCHANGED <<editor, modeVars>>

\* A step of the demo that the HUD does not see
Unseen ==
    /\ fLast' = [NoFeatOp EXCEPT !.op = "demo"]
    /\ UNCHANGED <<docVars, modeVars, timerVars, caches, calls, isAnalyzing, upd, shown>>

\* startDemo, up to its first await
StartDemo ==
    /\ phase = "active"
    /\ feat = "hud"
    /\ demo.nStart < MaxDemoStarts
    /\ LET id == demo.nStart + 1
       IN  demo' = IF demo.isRunning
                   THEN [demo EXCEPT !.nStart = id]
                   ELSE IF editor = "none"
                   THEN [demo EXCEPT !.nStart = id, !.abortController = id,
                                     !.isRunning = FALSE]
                   ELSE [demo EXCEPT !.nStart = id, !.abortController = id,
                                     !.isRunning = TRUE, !.runs = @ \cup {NewRun(id)}]
    /\ Unseen
    /\ UNCHANGED <<now, fnVars, cacheVars, nFetch, nTick, cLast, nEvent>>

StopDemo ==
    /\ phase = "active"
    /\ feat = "hud"
    /\ demo' = Stopped(demo)
    /\ Unseen
    /\ UNCHANGED <<now, fnVars, cacheVars, nFetch, nTick, cLast, nEvent>>

\* finally of startDemo: isRunning = false; abortController = null;
\* setDemoMode('normal'); clearScriptedDemo (which returns when no editor is
\* active). The two commands are taken together with the assignments.
Finished(d, r) ==
    [d EXCEPT !.isRunning = FALSE, !.abortController = 0, !.runs = @ \ {r},
              !.scripted = IF editor = "none" THEN @ ELSE FALSE]

\* A run resumes from its await: the edit is applied, or runScriptedDemo
\* tests signal.aborted at the scene boundary (typewrite: at the character)
\* and throws, or plays the next scene up to its await, or has played them all
DemoStep(r) ==
    /\ r \in demo.runs
    /\ LET moved == [demo EXCEPT !.runs = (@ \ {r}) \cup {[r EXCEPT !.at = @ + 1]}]
           scene == DemoScript[r.at]
       IN  IF r.at = 0
           THEN /\ demo' = moved
                /\ DocEdited(<<>>, 0)
           ELSE IF r.at > Len(DemoScript) \/ r.aborted
           THEN /\ demo' = Finished(demo, r)
                /\ ApplyDemoMode("normal")
                /\ UNCHANGED <<docVars, feat, phase, enabled, usePrecomputed, timerVars>>
           ELSE IF scene.action = "mode"
           THEN /\ demo' = moved
                /\ ApplyDemoMode(scene.mode)
                /\ UNCHANGED <<docVars, feat, phase, enabled, usePrecomputed, timerVars>>
           ELSE IF scene.action = "type"
           THEN /\ demo' = moved
                /\ DocEdited(Append(docText, 97), Len(docText) + 1)
           ELSE IF scene.action = "highlight"
           THEN /\ demo' = [moved EXCEPT !.scripted = @ \/ editor # "none"]
                /\ Unseen
           ELSE /\ demo' = moved
                /\ Unseen
    /\ UNCHANGED <<now, fnVars, cacheVars, nFetch, nTick, cLast, nEvent>>

InitDemo ==
    /\ now = 0
    /\ pc = <<>>
    /\ pcMaxSize = 1
    /\ pcTtlMs = 0
    /\ pcLast = NoOp
    /\ pcUse = <<>>
    /\ InitClientVars(ClearedCaches)
    /\ \E ed \in {"none", "python"} : InitFeatureVars("hud", ed, <<97>>, 0)

\* (the backend answers every call of the HUD while the demo runs)
DemoOutcomes == {"ok"}

NextDemo ==
    \/ Activate
    \/ StartDemo
    \/ StopDemo
    \/ \E r \in demo.runs : DemoStep(r)
    \/ \E d \in timers : TimerFire(d)
    \/ \E call \in calls, outcome \in DemoOutcomes : FeatSettle(call, outcome)
    \/ FeatTick

SpecDemo == InitDemo /\ [][NextDemo]_vars

----------------------------------------------------------------------------
\* The pure functions of the utility modules, called directly

MaxPrefixLen == 2

\* Strings of at most n code units over an alphabet
RECURSIVE StringsUpTo(_, _)
StringsUpTo(alphabet, n) ==
    IF n = 0 THEN {<<>>}
    ELSE StringsUpTo(alphabet, n - 1)
             \cup {Append(str, ch) : str \in StringsUpTo(alphabet, n - 1), ch \in alphabet}

\* Prefixes: short texts over 'a', 'b', and two texts long enough for the hash
\* to overflow 32 bits: "zzzzzz" hashes to -28e04240, "zzzzzzz" to cd7faba
Prefixes ==
    StringsUpTo({97, 98}, MaxPrefixLen)
        \cup {<<122, 122, 122, 122, 122, 122>>, <<122, 122, 122, 122, 122, 122, 122>>}

\* Feature tags: the four tags hudClient uses, and tags that contain or end
\* with the separator
FeatureTags ==
    {STR_ENTROPY, STR_GHOST, STR_AUTOPANIC, STR_SALIENCY, <<97>>, <<97, COLON>>, <<97, COLON, 48>>}

\* Each behaviour makes one call of one function (a result does not depend on
\* earlier calls): the initial state holds the arguments of the call to come
\* in fnIn.pending, the call moves them to fnIn and its result to fnOut.
Pending(fn) == fnIn.fn = "none" /\ fnIn.pending.fn = fn

\* makeCacheKey is called for two requests
MakeCacheKeyCalls ==
    {[fn |-> "makeCacheKey", feature |-> <<f1, f2>>, prefix |-> <<p1, p2>>] :
        f1 \in FeatureTags, f2 \in FeatureTags, p1 \in Prefixes, p2 \in Prefixes}

MakeCacheKeys ==
    /\ Pending("makeCacheKey")
    /\ fnIn' = fnIn.pending
    /\ fnOut' = <<makeCacheKey(fnIn.pending.feature[1], fnIn.pending.prefix[1]),
                  makeCacheKey(fnIn.pending.feature[2], fnIn.pending.prefix[2])>>
    /\ UNCHANGED <<now, cacheVars, clientVars, featureVars>>

\* logprobsToProbs. A logprob is an integer l standing for l * ln 2, so that
\* Math.exp(lp.logprob - maxLogprob) is the power of two 2^(l - max); numbers
\* are exact fractions over the denominator 2^MaxLogprobSteps.
MaxLogprobs == 3
MaxLogprobSteps == 2

TokenProbs ==
    UNION {[1..n -> [token : {<<97>>, <<98>>}, logprob : (0 - MaxLogprobSteps)..0]] :
              n \in 0..MaxLogprobs}

RECURSIVE Pow2(_)
Pow2(n) == IF n = 0 THEN 1 ELSE 2 * Pow2(n - 1)

\* Math.max(...logprobs.map(lp => lp.logprob))
RECURSIVE MaxLogprob(_)
MaxLogprob(lps) ==
    IF Len(lps) = 1 THEN lps[1].logprob
    ELSE LET m == MaxLogprob(Tail(lps))
         IN  IF lps[1].logprob > m THEN lps[1].logprob ELSE m

\* Math.exp(lp.logprob - maxLogprob), as a multiple of 1 / 2^MaxLogprobSteps
ExpOf(lp, maxLogprob) == Pow2(MaxLogprobSteps + (lp.logprob - maxLogprob))

\* exps.reduce((sum, e) => sum + e.exp, 0)
RECURSIVE SumExp(_, _)
SumExp(lps, maxLogprob) ==
    IF lps = <<>> THEN 0 ELSE ExpOf(Head(lps), maxLogprob) + SumExp(Tail(lps), maxLogprob)

\* for (const {token, exp} of exps) probs.set(token, exp / sumExp): the Map
\* after the first n entries, a value v standing for the fraction v / sumExp
RECURSIVE ProbsAfter(_, _, _)
ProbsAfter(lps, n, maxLogprob) ==
    IF n = 0 THEN <<>>
    ELSE MapSet(ProbsAfter(lps, n - 1, maxLogprob), lps[n].token,
                [key |-> lps[n].token, value |-> ExpOf(lps[n], maxLogprob)])

\* The Map returned, and the denominator of its values
logprobsToProbs(logprobs) ==
    IF Len(logprobs) = 0 THEN [probs |-> <<>>, den |-> 1]
    ELSE [probs |-> ProbsAfter(logprobs, Len(logprobs), MaxLogprob(logprobs)),
          den |-> SumExp(logprobs, MaxLogprob(logprobs))]

LogprobsToProbsCalls == {[fn |-> "logprobsToProbs", logprobs |-> logprobs] : logprobs \in TokenProbs}

LogprobsToProbs ==
    /\ Pending("logprobsToProbs")
    /\ fnIn' = fnIn.pending
    /\ fnOut' = logprobsToProbs(fnIn.pending.logprobs)
    /\ UNCHANGED <<now, cacheVars, clientVars, featureVars>>

\* [...topLogprobs].sort((a, b) => b.logprob - a.logprob): a stable sort,
\* candidates of equal logprob keep their order
RECURSIVE InsertDesc(_, _)
InsertDesc(sorted, lp) ==
    IF sorted = <<>> THEN <<lp>>
    ELSE IF Head(sorted).logprob >= lp.logprob
         THEN <<Head(sorted)>> \o InsertDesc(Tail(sorted), lp)
         ELSE <<lp>> \o sorted

RECURSIVE SortDesc(_)
SortDesc(lps) ==
    IF lps = <<>> THEN <<>>
    ELSE InsertDesc(SortDesc(SubSeq(lps, 1, Len(lps) - 1)), lps[Len(lps)])

\* probs.get(token) || 0, as a numerator over the Map's denominator
GetOrZero(probs, token) == IF MapHas(probs, token) THEN MapGet(probs, token).value ELSE 0

\* calculateMargin: the fraction num / den
calculateMargin(topLogprobs) ==
    IF Len(topLogprobs) < 2 THEN [num |-> 1, den |-> 1]
    ELSE LET sorted == SortDesc(topLogprobs)
             top2   == logprobsToProbs(SubSeq(sorted, 1, 2))
             p1     == GetOrZero(top2.probs, sorted[1].token)
             p2     == GetOrZero(top2.probs, sorted[2].token)
         IN  [num |-> p1 - p2, den |-> top2.den]

CalculateMarginCalls ==
    {[fn |-> "calculateMargin", topLogprobs |-> topLogprobs] : topLogprobs \in TokenProbs}

CalculateMargin ==
    /\ Pending("calculateMargin")
    /\ fnIn' = fnIn.pending
    /\ fnOut' = calculateMargin(fnIn.pending.topLogprobs)
    /\ UNCHANGED <<now, cacheVars, clientVars, featureVars>>

\* Distributions given directly as a Map<string, number>. A value k >= 0
\* stands for the probability 2^-k (so that Math.log2 of it is exactly -k),
\* the value ZeroProb for the probability 0.
ZeroProb == 0 - 1

ProbValues(maxBits) == {ZeroProb} \cup 0..maxBits

\* The Maps whose keys are taken, in order, from the tokens toks
RECURSIVE DistsOver(_, _)
DistsOver(toks, maxBits) ==
    IF toks = <<>> THEN {<<>>}
    ELSE LET rest == DistsOver(Tail(toks), maxBits)
         IN  rest \cup {<<[key |-> Head(toks), value |-> v]>> \o d :
                           v \in ProbValues(maxBits), d \in rest}

\* The tokens 'a', 'b', ... of a vocabulary of n tokens
Vocabulary(n) == [i \in 1..n |-> <<96 + i>>]

\* calculateSurprisal, in bits
SURPRISAL_ABSENT == 10
MaxSurprisalBits == 11

calculateSurprisal(token, probs) ==
    IF ~MapHas(probs, token) \/ MapGet(probs, token).value = ZeroProb
    THEN SURPRISAL_ABSENT
    ELSE MapGet(probs, token).value

CalculateSurprisalCalls ==
    {[fn |-> "calculateSurprisal", token |-> token, probs |-> probs] :
        token \in {<<97>>, <<98>>}, probs \in DistsOver(Vocabulary(2), MaxSurprisalBits)}

CalculateSurprisal ==
    /\ Pending("calculateSurprisal")
    /\ fnIn' = fnIn.pending
    /\ fnOut' = calculateSurprisal(fnIn.pending.token, fnIn.pending.probs)
    /\ UNCHANGED <<now, cacheVars, clientVars, featureVars>>

\* calculateKL. The value EPSILON stands for the constant 1e-10; the number
\* returned is (ln2 * ln 2 + lnInvEps * ln 1e10) / 2^MaxKLBits, and terms
\* lists, for every term added, the token, pVal and the divisor qVal.
EPSILON == 0 - 2
MaxKLBits == 2

\* q.get(token) || 1e-10: undefined and 0 are both falsy
QVal_KeepZero(q, token) == IF MapHas(q, token) THEN MapGet(q, token).value ELSE EPSILON

QVal(q, token) ==
    IF MapHas(q, token) /\ MapGet(q, token).value # ZeroProb
    THEN MapGet(q, token).value
    ELSE EPSILON

\* pVal * Math.log(pVal / qVal) for pVal = 2^-k: the multiples of ln 2 and of
\* ln 1e10 it adds, over the denominator 2^MaxKLBits
TermLn2(pVal, qVal) ==
    Pow2(MaxKLBits - pVal) * (IF qVal = EPSILON THEN 0 - pVal ELSE qVal - pVal)

TermLnInvEps(pVal, qVal) == IF qVal = EPSILON THEN Pow2(MaxKLBits - pVal) ELSE 0

RECURSIVE KLAfter(_, _, _)
KLAfter(p, q, n) ==
    IF n = 0 THEN [ln2 |-> 0, lnInvEps |-> 0, terms |-> <<>>]
    ELSE LET kl   == KLAfter(p, q, n - 1)
             pVal == p[n].value
             qVal == QVal(q, p[n].key)
         IN  IF pVal # ZeroProb
             THEN [ln2      |-> kl.ln2 + TermLn2(pVal, qVal),
                   lnInvEps |-> kl.lnInvEps + TermLnInvEps(pVal, qVal),
                   terms    |-> Append(kl.terms, [token |-> p[n].key, pVal |-> pVal, qVal |-> qVal])]
             ELSE kl

calculateKL(p, q) == KLAfter(p, q, Len(p))

CalculateKLCalls ==
    {[fn |-> "calculateKL", p |-> p, q |-> q] :
        p \in DistsOver(Vocabulary(2), MaxKLBits), q \in DistsOver(Vocabulary(2), MaxKLBits)}

CalculateKL ==
    /\ Pending("calculateKL")
    /\ fnIn' = fnIn.pending
    /\ fnOut' = calculateKL(fnIn.pending.p, fnIn.pending.q)
    /\ UNCHANGED <<now, cacheVars, clientVars, featureVars>>

\* calculateEntropy, in bits, as a multiple of 1 / 2^MaxEntropyBits
MaxOutcomes == 4
MaxEntropyBits == 2

\* if (p > 0) entropy -= p * Math.log2(p)
EntropyTerm_NoSkip(value) == Pow2(MaxEntropyBits - value) * value

EntropyTerm(value) == IF value # ZeroProb THEN Pow2(MaxEntropyBits - value) * value ELSE 0

RECURSIVE calculateEntropy(_)
calculateEntropy(probs) ==
    IF probs = <<>> THEN 0
    ELSE calculateEntropy(SubSeq(probs, 1, Len(probs) - 1)) + EntropyTerm(probs[Len(probs)].value)

CalculateEntropyCalls ==
    {[fn |-> "calculateEntropy", probs |-> probs] :
        probs \in DistsOver(Vocabulary(MaxOutcomes), MaxEntropyBits)}

CalculateEntropy ==
    /\ Pending("calculateEntropy")
    /\ fnIn' = fnIn.pending
    /\ fnOut' = calculateEntropy(fnIn.pending.probs)
    /\ UNCHANGED <<now, cacheVars, clientVars, featureVars>>

\* An editor document: its lines (without line terminators) and its
\* end-of-line sequence, LF or CRLF; document.getText() joins the lines with it
CR == 13
MaxDocLines == 2
MaxLineLen == 2

EndOfLines == {<<NL>>, <<CR, NL>>}

Documents ==
    UNION {[1..n -> StringsUpTo({97, 98}, MaxLineLen)] : n \in 1..MaxDocLines}

RECURSIVE GetText(_, _)
GetText(lines, eol) ==
    IF Len(lines) = 1 THEN lines[1]
    ELSE lines[1] \o eol \o GetText(Tail(lines), eol)

\* fetchEntropy(document.getText(), uri, position.line + 1, position.character)
CallerRequest_ZeroIndexed(text, line, character) == Request(text, URI, line, character)
CallerRequest(text, line, character) == Request(text, URI, line + 1, character)

\* The positions inside a document
InsideDocument(lines, line, character) ==
    line < Len(lines) /\ character <= Len(lines[line + 1])

PrefixAtCursorCalls ==
    {call \in [fn : {"prefixAtCursor"}, lines : Documents, eol : EndOfLines,
               line : 0..(MaxDocLines - 1), character : 0..MaxLineLen] :
        InsideDocument(call.lines, call.line, call.character)}

\* An update with the cursor at (line, character): the arguments passed to the
\* fetch functions and the bodies these post
PrefixAtCursor ==
    /\ Pending("prefixAtCursor")
    /\ fnIn' = fnIn.pending
    /\ fnOut' = LET req == CallerRequest(GetText(fnIn.pending.lines, fnIn.pending.eol),
                                         fnIn.pending.line, fnIn.pending.character)
                IN  [request |-> req,
                     body |-> [ep \in {"entropy", "ghost", "autopanic"} |-> BodyOf(ep, req)]]
    /\ UNCHANGED <<now, cacheVars, clientVars, featureVars>>

\* Selection of the saliency tokens to display. klDivergence is counted in
\* thousandths; the saliency lens keeps klDivergence >= 0.05, the unified HUD
\* klDivergence > 0.001, both the first five after sorting.
MAX_DISPLAY_TOKENS == 5
KL_THRESHOLD == 50
HUD_MAX_DISPLAY_TOKENS == 5
HUD_KL_THRESHOLD == 1
MaxSaliencyTokens == 6

\* Values below, at and above the thresholds
KLValues == {0, HUD_KL_THRESHOLD, KL_THRESHOLD, KL_THRESHOLD + 10}

\* The tokens of a SaliencyResponse, each with its place in the response
SaliencyTokens ==
    UNION {[1..n -> KLValues] : n \in 0..MaxSaliencyTokens}

Indexed(kls) == [i \in 1..Len(kls) |-> [index |-> i, klDivergence |-> kls[i]]]

\* .filter(t => t.klDivergence >= KL_THRESHOLD) / .filter(t => t.klDivergence > 0.001)
Salient_All(view, t) == TRUE
Salient(view, t) ==
    IF view = "lens" THEN t.klDivergence >= KL_THRESHOLD
    ELSE t.klDivergence > HUD_KL_THRESHOLD

\* .sort((a, b) => b.klDivergence - a.klDivergence): a stable sort
RECURSIVE InsertByKL(_, _)
InsertByKL(sorted, t) ==
    IF sorted = <<>> THEN <<t>>
    ELSE IF Head(sorted).klDivergence >= t.klDivergence
         THEN <<Head(sorted)>> \o InsertByKL(Tail(sorted), t)
         ELSE <<t>> \o sorted

RECURSIVE SortByKL(_)
SortByKL(ts) ==
    IF ts = <<>> THEN <<>>
    ELSE InsertByKL(SortByKL(SubSeq(ts, 1, Len(ts) - 1)), ts[Len(ts)])

\* .slice(0, n)
Slice0(seq, n) == SubSeq(seq, 1, IF n < Len(seq) THEN n ELSE Len(seq))

DisplayLimit(view) == IF view = "lens" THEN MAX_DISPLAY_TOKENS ELSE HUD_MAX_DISPLAY_TOKENS

\* salientTokens of showSaliencyHighlights, topTokens of renderSaliency
SalientTokens(view, tokens) ==
    Slice0(SortByKL(SelectSeq(tokens, LAMBDA t : Salient(view, t))), DisplayLimit(view))

SelectSalientCalls ==
    {[fn |-> "selectSalient", view |-> view, tokens |-> Indexed(kls)] :
        view \in {"lens", "hud"}, kls \in SaliencyTokens}

SelectSalient ==
    /\ Pending("selectSalient")
    /\ fnIn' = fnIn.pending
    /\ fnOut' = SalientTokens(fnIn.pending.view, fnIn.pending.tokens)
    /\ UNCHANGED <<now, cacheVars, clientVars, featureVars>>

\* buildPrefix called as the fetch functions call it, on code.split('\n'), with
\* cursor positions inside and outside the code (a line before the first, a
\* line after the last, a character before and after the line)
MaxCodeLen == 3

BuildPrefixCalls ==
    [fn : {"buildPrefix"}, code : StringsUpTo({97, NL}, MaxCodeLen),
     cursorLine : (0 - 1)..(MaxCodeLen + 2), cursorChar : (0 - 1)..(MaxCodeLen + 1)]

BuildPrefix ==
    /\ Pending("buildPrefix")
    /\ fnIn' = fnIn.pending
    /\ fnOut' = buildPrefix(SplitLines(fnIn.pending.code), fnIn.pending.cursorLine,
                            fnIn.pending.cursorChar)
    /\ UNCHANGED <<now, cacheVars, clientVars, featureVars>>

FnCalls ==
    MakeCacheKeyCalls \cup LogprobsToProbsCalls \cup CalculateMarginCalls
        \cup CalculateSurprisalCalls \cup CalculateKLCalls \cup CalculateEntropyCalls
        \cup PrefixAtCursorCalls \cup SelectSalientCalls \cup BuildPrefixCalls

InitFn ==
    /\ now = 0
    /\ pc = <<>>
    /\ pcMaxSize = 1
    /\ pcTtlMs = 0
    /\ pcLast = NoOp
    /\ pcUse = <<>>
    /\ fnIn \in {[fn |-> "none", pending |-> call] : call \in FnCalls}
    /\ fnOut = Null
    /\ caches = ClearedCaches
    /\ calls = {}
    /\ nFetch = 0
    /\ nTick = 0
    /\ cLast = NoClientOp
    /\ InitFeatureVars("entropy", "none", <<97>>, 0)

NextFn ==
    \/ MakeCacheKeys
    \/ LogprobsToProbs
    \/ CalculateMargin
    \/ CalculateSurprisal
    \/ CalculateKL
    \/ CalculateEntropy
    \/ PrefixAtCursor
    \/ SelectSalient
    \/ BuildPrefix

SpecFn == InitFn /\ [][NextFn]_vars

----------------------------------------------------------------------------
\* Claims about PredictionCache, checked under SpecCache

\* The Map with the entry at position p removed, order kept
Without(c, p) == [i \in 1..(Len(c) - 1) |-> IF i < p THEN c[i] ELSE c[i + 1]]

\* C1: after any sequence of get, set and clear calls, size() <= maxSize.
C1_SizeWithinMaxSize == Len(pc) <= pcMaxSize

C1_Witness ==
    /\ pcLast.op = "set"
    /\ pcLast.evicted # 0
    /\ Len(pc) = pcMaxSize

\* C2: whenever get returns a value, the entry returned is at most ttl old.
C2_ReturnedEntryWithinTtl ==
    (pcLast.op = "get" /\ pcLast.result # Miss) => pcLast.age <= pcTtlMs

C2_Witness ==
    /\ pcLast.op = "get"
    /\ pcLast.result # Miss
    /\ pcLast.age = pcTtlMs
    /\ pcTtlMs > 0

\* C3: set of an absent key at size = maxSize removes exactly one entry, the
\* least recently used one (oldest last get hit or set), and keeps every other
\* entry with its value.
C3_EvictsLeastRecentlyUsed ==
    [][(pcLast'.op = "set" /\ ~MapHas(pc, pcLast'.key) /\ Len(pc) = pcMaxSize) =>
          /\ Len(pc') = Len(pc)
          /\ ~MapHas(pc', Head(pcUse))
          /\ \A i \in 1..Len(pc) :
                pc[i].key # Head(pcUse) =>
                    /\ MapHas(pc', pc[i].key)
                    /\ MapGet(pc', pc[i].key).value = pc[i].value]_vars

\* C4: set of a present key overwrites value and timestamp, makes the key the
\* most recently used entry (last candidate for eviction) and keeps the size.
C4_OverwriteRefreshesRecency ==
    [][(pcLast'.op = "set" /\ MapHas(pc, pcLast'.key)) =>
          /\ Len(pc') = Len(pc)
          /\ pc'[Len(pc')] = [key |-> pcLast'.key, value |-> pcLast'.result,
                              timestamp |-> now]]_vars

\* C5: get of a present, unexpired entry returns its value, makes the key the
\* most recently used entry and leaves its timestamp (and all else) unchanged.
C5_HitRefreshesRecencyOnly ==
    [][(/\ pcLast'.op = "get"
        /\ MapHas(pc, pcLast'.key)
        /\ now - MapGet(pc, pcLast'.key).timestamp <= pcTtlMs) =>
          /\ pcLast'.result = MapGet(pc, pcLast'.key).value
          /\ pc' = Append(Without(pc, MapIndex(pc, pcLast'.key)),
                          MapGet(pc, pcLast'.key))]_vars

C5_Witness ==
    /\ pcLast.op = "get"
    /\ pcLast.result # Miss
    /\ pcLast.pos = 1
    /\ pcLast.age > 0
    /\ Len(pc) >= 2

\* C6: get of an entry older than ttl is a miss and deletes exactly that entry;
\* get of an absent key is a miss and changes nothing.
C6_ExpiredGetDeletes ==
    [][/\ (/\ pcLast'.op = "get"
           /\ MapHas(pc, pcLast'.key)
           /\ now - MapGet(pc, pcLast'.key).timestamp > pcTtlMs) =>
              /\ pcLast'.result = Miss
              /\ pc' = Without(pc, MapIndex(pc, pcLast'.key))
       /\ (pcLast'.op = "get" /\ ~MapHas(pc, pcLast'.key)) =>
              /\ pcLast'.result = Miss
              /\ pc' = pc]_vars

C6_Witness ==
    /\ pcLast.op = "get"
    /\ pcLast.result = Miss
    /\ pcLast.pos = 1
    /\ pcLast.age > pcTtlMs
    /\ Len(pc) >= 1

----------------------------------------------------------------------------
\* Claims about hudClient

\* C7: two concurrent lookups for the same uncached key, the second started
\* before the first resolves, trigger exactly one backend call: no two calls in
\* flight are for the same endpoint and the same cache key.
C7_SingleFlight ==
    \A c1, c2 \in calls : (c1.ep = c2.ep /\ c1.key = c2.key) => c1 = c2

----------------------------------------------------------------------------
\* Claims about the feature modules

C9_LastTriggerReachesLookup ==
    (/\ fLast.op = "expire"
     /\ (feat # "legacy" => enabled)
     /\ editor # "none"
     /\ (feat = "hud" => editor = "python")
     /\ ~PrecomputedPath(feat, demoMode, usePrecomputed, docText)) => fLast.lookup

\* C10: the result of a backend call that a newer trigger superseded while it
\* was in flight is not rendered.
C10_SupersededResultNotDelivered ==
    (fLast.op = "resume" /\ fLast.superseded) => ~fLast.delivered

\* C11: a successful backend response is written to the feature's cache under
\* the key computed when the call was issued, with the time of its arrival,
\* whether or not a newer trigger superseded the update that issued the call.
C11_ResponseCachedUnderIssuedKey ==
    (fLast.outcome = "ok" /\ fLast.ep \in CachedEndpoints) =>
        /\ MapHas(caches[fLast.ep], fLast.key)
        /\ MapGet(caches[fLast.ep], fLast.key).value = fLast.result
        /\ MapGet(caches[fLast.ep], fLast.key).timestamp = now

\* C11 witness: the call of a superseded update has settled successfully
C11_Witness ==
    /\ fLast.outcome = "ok"
    /\ fLast.ep \in CachedEndpoints
    /\ fLast.superseded
    /\ MapHas(caches[fLast.ep], fLast.key)

\* C12: a fetch that finds an unexpired cache entry for its key returns the
\* cached value and issues no backend call.
C12_HitIssuesNoCall ==
    (cLast.op = "fetch" /\ cLast.cached # Miss) =>
        /\ cLast.result = cLast.cached
        /\ Cardinality({c \in calls : c.ep = cLast.ep /\ c.key = cLast.key}) = cLast.inFlight

\* C13: when the backend call of a fetch function fails (non-2xx status or
\* transport error), the function returns null and leaves the caches unchanged.
C13_FailureReturnsNullUncached ==
    cLast.op \in {"status", "error"} => (cLast.result = Null /\ cLast.changed = {})

\* C13 witness: a call failed while its cache held an entry
C13_Witness == cLast.op \in {"status", "error"} /\ caches[cLast.ep] # <<>>

\* C14: a response with success status whose body is not of the expected shape
\* is not written to the cache, and the fetch returns no data.
C14_MalformedTreatedAsFailure ==
    cLast.op \in {"shape", "falsy"} =>
        /\ cLast.result = Null
        /\ ~MapHas(caches[cLast.ep], cLast.key)

\* C15: when an update of the unified HUD ends, every result of a call of that
\* update that succeeded, and that the demo mode shows, is rendered, also when
\* another call of the update failed.
C15_FailureContained ==
    [][(feat = "hud" /\ upd.active /\ ~upd'.active) =>
          \A g \in upd.got :
              (g[2] # Null /\ ShowsResult(upd.mode, g[1])) => g \in shown'.data]_vars

\* C16: a step issues a /saliency backend call only if the user has enabled or
\* run saliency analysis (saliencyEnabled of the saliency lens, which starts
\* false) or has chosen the saliency demo mode of the unified HUD.
C16_SaliencyOnlyOnRequest ==
    [][(\E c \in calls' \ calls : c.ep = "saliency") =>
          \/ feat = "saliency" /\ enabled
          \/ feat = "hud" /\ demoMode' = "saliency"]_vars

\* C17: after clearCaches() each of the four caches has size 0, and a fetch
\* whose cache is empty gets a miss and issues a backend call.
C17_ClearEmptiesAllCaches ==
    /\ cLast.op = "clear" => \A ep \in CachedEndpoints : Len(caches[ep]) = 0
    /\ (cLast.op = "fetch" /\ caches[cLast.ep] = <<>>) =>
          /\ cLast.cached = Miss
          /\ Cardinality({c \in calls : c.ep = cLast.ep /\ c.key = cLast.key})
                 = cLast.inFlight + 1

\* C17 witness: clearCaches() ran after two fetches had been made and settled
C17_Witness ==
    /\ cLast.op = "clear"
    /\ nFetch = 2
    /\ calls = {}
    /\ caches = ClearedCaches

\* The text of a request that its answer depends on: the prefix sent to
\* /entropy, /ghost and /autopanic, the code sent to /saliency
RelevantText(ep, body) == IF ep = "saliency" THEN body.code ELSE body.prefix

\* C18: a fetch returns a cached value only to a request whose relevant text
\* hashes to the same value as the text of the request that populated the entry.
C18_KeyDerivedFromRelevantText ==
    (cLast.op = "fetch" /\ cLast.hit /\ cLast.result # Malformed) =>
        hashString(RelevantText(cLast.ep, cLast.result.answers))
            = hashString(RelevantText(cLast.ep, cLast.body))

----------------------------------------------------------------------------
\* Claims about the pure functions

HexChars == {48, 49, 50, 51, 52, 53, 54, 55, 56, 57, 97, 98, 99, 100, 101, 102, MINUS}

IsKeyFor(key, feature) ==
    /\ Len(key) > Len(feature) + 1
    /\ SubSeq(key, 1, Len(feature)) = feature
    /\ key[Len(feature) + 1] = COLON
    /\ \A i \in (Len(feature) + 2)..Len(key) : key[i] \in HexChars

\* C19: two calls of makeCacheKey with the same feature tag and the same prefix
\* return the same key, each key is the tag, a colon and a hexadecimal hash,
\* and calls with different feature tags never return equal keys.
C19_KeyDeterminedByTagAndPrefix ==
    fnIn.fn = "makeCacheKey" =>
        /\ IsKeyFor(fnOut[1], fnIn.feature[1])
        /\ IsKeyFor(fnOut[2], fnIn.feature[2])
        /\ (fnIn.feature[1] = fnIn.feature[2] /\ fnIn.prefix[1] = fnIn.prefix[2])
               => fnOut[1] = fnOut[2]
        /\ fnIn.feature[1] # fnIn.feature[2] => fnOut[1] # fnOut[2]

\* C19 witness: two tags, one a proper prefix of the other, with the same prefix text
C19_Witness ==
    /\ fnIn.fn = "makeCacheKey"
    /\ fnIn.feature = <<<<97>>, <<97, COLON>>>>
    /\ fnIn.prefix[1] = fnIn.prefix[2]
    /\ fnOut[1] # fnOut[2]

RECURSIVE SumValues(_)
SumValues(m) == IF m = <<>> THEN 0 ELSE Head(m).value + SumValues(Tail(m))

\* C20: for a non-empty list, the probabilities in the Map that logprobsToProbs
\* returns sum to 1 and each lies in [0, 1].
C20_ProbsSumToOne ==
    (fnIn.fn = "logprobsToProbs" /\ Len(fnIn.logprobs) > 0) =>
        /\ SumValues(fnOut.probs) = fnOut.den
        /\ \A i \in 1..Len(fnOut.probs) :
              0 <= fnOut.probs[i].value /\ fnOut.probs[i].value <= fnOut.den

\* The two largest logprobs of a list of at least two candidates
TopLogprob(lps) == MaxLogprob(lps)
SecondLogprob(lps) ==
    LET i == CHOOSE j \in 1..Len(lps) : lps[j].logprob = MaxLogprob(lps)
    IN  MaxLogprob([k \in 1..(Len(lps) - 1) |-> IF k < i THEN lps[k] ELSE lps[k + 1]])

\* C21: calculateMargin returns exactly 1 for fewer than two candidates; for
\* two or more it returns p1 - p2 of the two highest-logprob candidates,
\* renormalised over those two (with e1 = 1 and e2 = 2^(l2 - l1), that is
\* (e1 - e2) / (e1 + e2)), and the result lies in [0, 1].
C21_MarginOfTopTwo ==
    fnIn.fn = "calculateMargin" =>
        IF Len(fnIn.topLogprobs) < 2 THEN fnOut.num = fnOut.den
        ELSE LET e1 == Pow2(MaxLogprobSteps)
                 e2 == Pow2(MaxLogprobSteps + SecondLogprob(fnIn.topLogprobs)
                                            - TopLogprob(fnIn.topLogprobs))
             IN  /\ fnOut.num * (e1 + e2) = (e1 - e2) * fnOut.den
                 /\ 0 <= fnOut.num /\ fnOut.num <= fnOut.den

\* C22: calculateSurprisal returns the fixed sentinel for a token absent from
\* the distribution, and the sentinel is at least the surprisal returned for
\* every token present in the distribution with a non-zero probability.
C22_AbsentSentinelIsLargest ==
    fnIn.fn = "calculateSurprisal" =>
        /\ ~MapHas(fnIn.probs, fnIn.token) => fnOut = SURPRISAL_ABSENT
        /\ (MapHas(fnIn.probs, fnIn.token) /\ MapGet(fnIn.probs, fnIn.token).value # ZeroProb)
               => fnOut <= SURPRISAL_ABSENT

\* The tokens of P with a positive probability that Q lacks
LackingIn(p, q) == {i \in 1..Len(p) : p[i].value # ZeroProb /\ ~MapHas(q, p[i].key)}

RECURSIVE SumOver(_, _)
SumOver(f, S) ==
    IF S = {} THEN 0 ELSE LET x == CHOOSE y \in S : TRUE IN f[x] + SumOver(f, S \ {x})

\* C23: calculateKL(P, P) is 0 for every distribution P; for every P and Q no
\* term divides by zero, and a token of P that Q lacks contributes
\* P(t) * log(P(t) / 1e-10), the only terms in which 1e-10 appears when Q
\* holds no zero.
C23_KLSelfZeroNoZeroDivisor ==
    fnIn.fn = "calculateKL" =>
        /\ fnIn.p = fnIn.q => (fnOut.ln2 = 0 /\ fnOut.lnInvEps = 0)
        /\ \A i \in 1..Len(fnOut.terms) : fnOut.terms[i].qVal # ZeroProb
        /\ \A i \in LackingIn(fnIn.p, fnIn.q) :
              \E j \in 1..Len(fnOut.terms) :
                  fnOut.terms[j] = [token |-> fnIn.p[i].key, pVal |-> fnIn.p[i].value,
                                    qVal |-> EPSILON]
        /\ (\A i \in 1..Len(fnIn.q) : fnIn.q[i].value # ZeroProb) =>
              fnOut.lnInvEps =
                  SumOver([i \in 1..Len(fnIn.p) |-> Pow2(MaxKLBits - fnIn.p[i].value)],
                          LackingIn(fnIn.p, fnIn.q))

\* C23 witness: P has a token of positive probability that Q lacks, and a
\* token whose probability in Q is 0
C23_Witness ==
    /\ fnIn.fn = "calculateKL"
    /\ LackingIn(fnIn.p, fnIn.q) # {}
    /\ \E j \in 1..Len(fnOut.terms) :
          /\ MapHas(fnIn.q, fnOut.terms[j].token)
          /\ MapGet(fnIn.q, fnOut.terms[j].token).value = ZeroProb
    /\ fnOut.lnInvEps > 0

\* The entries of a Map with a non-zero probability
Positive(probs) == SelectSeq(probs, LAMBDA e : e.value # ZeroProb)

\* A Map of 2^m non-zero entries, each of probability 2^-m
IsUniform(probs, m) ==
    /\ Len(probs) = Pow2(m)
    /\ \A i \in 1..Len(probs) : probs[i].value = m

\* C24: calculateEntropy of a point mass (one token of probability 1) is 0,
\* of a uniform distribution over k = 2^m outcomes it is log2(k) = m, and
\* entries of probability 0 add nothing.
C24_EntropyOfPointMassAndUniform ==
    fnIn.fn = "calculateEntropy" =>
        /\ IsUniform(fnIn.probs, 0) => fnOut = 0
        /\ \A m \in 0..MaxEntropyBits :
              IsUniform(Positive(fnIn.probs), m) => fnOut = m * Pow2(MaxEntropyBits)
        /\ fnOut = calculateEntropy(Positive(fnIn.probs))

\* C24 witness: a uniform distribution over four outcomes
C24_Witness ==
    /\ fnIn.fn = "calculateEntropy"
    /\ IsUniform(fnIn.probs, 2)
    /\ fnOut = 2 * Pow2(MaxEntropyBits)

\* C25: while isAnalyzing is set a backend call the update awaits is in
\* flight, and, every backend call eventually settling, an update that sets
\* isAnalyzing eventually resets it.
C25_AnalyzingEventuallyResets ==
    /\ [](isAnalyzing => \E c \in calls : c.awaited)
    /\ []<>(~isAnalyzing)

\* C25 witness: the update of the unified HUD ended in its catch block and
\* reset the flag while others of its backend calls are still in flight
C25_Witness ==
    /\ fLast.op = "throw"
    /\ ~isAnalyzing
    /\ calls # {}

\* C26: a step issues a /saliency backend call only after a quiet period of at
\* least the saliency debounce window since the last trigger event, and that
\* window is strictly longer than the entropy and the ghost windows.
C26_SaliencyAfterQuietPeriod ==
    [][(\E c \in calls' \ calls : c.ep = "saliency") =>
          /\ deb.trig >= 0
          /\ now - deb.trig >= SALIENCY_DEBOUNCE_MS
          /\ SALIENCY_DEBOUNCE_MS > ENTROPY_DEBOUNCE_MS
          /\ SALIENCY_DEBOUNCE_MS > GHOST_DEBOUNCE_MS]_vars

\* C27: a fetch (the get of its cache) and the settling of a backend call
\* (the set of its cache, with the eviction it may cause) leave the contents,
\* order and size of every other cache unchanged.
C27_CachesIndependent ==
    cLast.op \in {"fetch"} \cup Outcomes => cLast.changed \subseteq {cLast.ep}

\* C27 witness: a response was stored in the full saliency cache, whose oldest
\* entry was evicted, while the other caches hold their entries
C27_Witness ==
    /\ cLast.op = "ok"
    /\ cLast.ep = "saliency"
    /\ cLast.changed = {"saliency"}
    /\ Len(caches["saliency"]) = SALIENCY_CACHE_SIZE
    /\ caches["saliency"][1] = FilledCaches["saliency"][2]
    /\ \A ep \in CachedEndpoints \ {"saliency"} : caches[ep] = FilledCaches[ep]

\* The number of code units of the document text before the position
RECURSIVE OffsetAt(_, _, _, _)
OffsetAt(lines, eol, line, character) ==
    IF line = 0 THEN character
    ELSE Len(lines[1]) + Len(eol) + OffsetAt(Tail(lines), eol, line - 1, character)

\* C28: for a cursor at the 0-indexed position (l, c) inside the document the
\* callers pass cursorLine = l + 1 and cursorChar = c, and the prefix posted to
\* /entropy, /ghost and /autopanic is the document text before the cursor.
C28_PrefixIsTextBeforeCursor ==
    fnIn.fn = "prefixAtCursor" =>
        /\ fnOut.request.cursorLine = fnIn.line + 1
        /\ fnOut.request.cursorChar = fnIn.character
        /\ \A ep \in DOMAIN fnOut.body :
              fnOut.body[ep].prefix =
                  SubSeq(GetText(fnIn.lines, fnIn.eol), 1,
                         OffsetAt(fnIn.lines, fnIn.eol, fnIn.line, fnIn.character))

\* C28 witness: the cursor is inside the second line of a CRLF document
C28_Witness ==
    /\ fnIn.fn = "prefixAtCursor"
    /\ fnIn.eol = <<CR, NL>>
    /\ fnIn.line = 1
    /\ fnIn.character = 1
    /\ Len(fnIn.lines[2]) = 2
    /\ fnOut.body["entropy"].prefix = fnIn.lines[1] \o <<CR, NL>> \o <<fnIn.lines[2][1]>>

\* The minimum klDivergence of a view
ThresholdOf(view) == IF view = "lens" THEN KL_THRESHOLD ELSE HUD_KL_THRESHOLD

Range(seq) == {seq[i] : i \in 1..Len(seq)}

\* C29: the saliency tokens selected for display are tokens of the response,
\* in descending order of klDivergence, each at or above the view's threshold,
\* at most five, and no token left out that is at or above the threshold has
\* a larger klDivergence than a selected one.
C29_TopSalientTokensSelected ==
    fnIn.fn = "selectSalient" =>
        /\ Range(fnOut) \subseteq Range(fnIn.tokens)
        /\ \A i, j \in 1..Len(fnOut) :
              /\ i < j => fnOut[i].klDivergence >= fnOut[j].klDivergence
              /\ i # j => fnOut[i] # fnOut[j]
        /\ \A t \in Range(fnOut) : t.klDivergence >= ThresholdOf(fnIn.view)
        /\ Len(fnOut) <= 5
        /\ \A t \in Range(fnIn.tokens) \ Range(fnOut) :
              t.klDivergence >= ThresholdOf(fnIn.view) =>
                  \A u \in Range(fnOut) : t.klDivergence <= u.klDivergence

\* C29 witness: the saliency lens gets six tokens at or above its threshold,
\* the largest of them last, and leaves one of the smallest out
C29_Witness ==
    /\ fnIn.fn = "selectSalient"
    /\ fnIn.view = "lens"
    /\ Len(fnIn.tokens) = 6
    /\ \A t \in Range(fnIn.tokens) : t.klDivergence >= KL_THRESHOLD
    /\ fnIn.tokens[6].klDivergence > fnIn.tokens[1].klDivergence
    /\ Len(fnOut) = 5
    /\ fnOut[1] = fnIn.tokens[6]

\* The steps in which the update function of the feature runs
UpdateOps == {"activate", "switch", "toggle", "setDemoMode", "expire"}

\* C30: a run of updateHud while demoMode is not 'normal' issues no backend
\* call, and what it renders is the precomputed data.
C30_DemoModeUsesPrecomputedOnly ==
    [][(feat = "hud" /\ demoMode' # "normal" /\ fLast'.op \in UpdateOps) =>
          /\ calls' \subseteq calls
          /\ fLast'.delivered => shown'.data = {<<"precomputed", demoMode'>>}]_vars

\* The backend calls the suspended update of the feature waits for
Awaited == {c \in calls : c.awaited}

\* The step invoked the update function of the feature f (op: the step taken,
\* en, ed: the enabled flag and the active editor after it)
UpdateInvoked(op, f, en, ed) ==
    \/ op = "expire"
    \/ op \in {"activate", "switch"} /\ f \in {"legacy", "hud"}
    \/ op = "toggle" /\ en /\ ed # "none" /\ f \in {"entropy", "hud"}
    \/ op = "setDemoMode" /\ ed # "none"

\* C31: at most one update of the feature is suspended at a time (it awaits at
\* most one call per endpoint and the flag is set while it does), and an
\* update function invoked while isAnalyzing is set returns at once: it issues
\* no backend call and leaves the flag and the suspended update as they are.
C31_OneUpdateInFlight ==
    /\ [](/\ \A c, d \in Awaited : c.ep = d.ep => c = d
          /\ Awaited # {} => isAnalyzing /\ upd.active
          /\ {c.ep : c \in Awaited} \subseteq Endpoints(feat))
    /\ [][(isAnalyzing /\ UpdateInvoked(fLast'.op, feat, enabled', editor')) =>
             /\ fLast'.blocked
             /\ calls' = calls
             /\ isAnalyzing'
             /\ upd' = upd]_vars

\* C31 witness: a timer expired while the update was suspended, and the update
\* it invoked was turned away
C31_Witness ==
    /\ fLast.op = "expire"
    /\ fLast.blocked
    /\ isAnalyzing
    /\ Awaited # {}

\* C32: while the feature is disabled no step renders decorations of it: a
\* step that ends with the feature disabled leaves no decoration displayed
\* that was not displayed before, also when it is the completion of a backend
\* call that was in flight when the toggle command disabled the feature.
C32_NothingRenderedWhileDisabled ==
    [][(feat # "legacy" /\ ~enabled') => (shown' = shown \/ ~shown'.visible)]_vars

\* The feature modules whose update returns when its fetch returned null
Lenses == {"entropy", "ghost", "saliency"}

IsPrefix(str, text) == Len(str) <= Len(text) /\ str = SubSeq(text, 1, Len(str))

\* The number of lines of a text: one more than its line feeds
NumLines(text) == 1 + Cardinality({i \in 1..Len(text) : text[i] = NL})

\* C37: for every code and every cursor position, inside the code or not,
\* buildPrefix returns a prefix of the code: the empty string when cursorLine
\* is below 1, the whole code when cursorLine exceeds its number of lines.
C37_BuildPrefixIsPrefixOfCode ==
    fnIn.fn = "buildPrefix" =>
        /\ IsPrefix(fnOut, fnIn.code)
        /\ fnIn.cursorLine < 1 => fnOut = <<>>
        /\ fnIn.cursorLine > NumLines(fnIn.code) => fnOut = fnIn.code

\* C37 witness: the cursor is on the first of two lines, beyond its end, and
\* the prefix is that line
C37_Witness ==
    /\ fnIn.fn = "buildPrefix"
    /\ fnIn.code = <<97, NL, 97>>
    /\ fnIn.cursorLine = 1
    /\ fnIn.cursorChar = MaxCodeLen + 1
    /\ fnOut = <<97>>

\* The backend calls in flight after a step that were not in flight before it
Issued(before, after) ==
    {c \in after : \A d \in before : [d EXCEPT !.awaited = c.awaited] # c}

\* C36: once deactivate() has run no debounce timer of the feature is pending,
\* no timer callback executes and no backend call is issued.
C36_NoTimerAfterDeactivate ==
    /\ [](phase = "inactive" => timers = {})
    /\ [][phase = "inactive" => (fLast'.op # "expire" /\ Issued(calls, calls') = {})]_vars

\* C36 witness: the extension was deactivated while the timer of the last
\* trigger was pending, and the time of its expiry has passed
C36_Witness ==
    /\ phase = "inactive"
    /\ deb.armed >= 0
    /\ deb.firedA = 0
    /\ handle = deb.armed + DebounceMs(feat)
    /\ now >= handle

\* C33: at most one execution of the scripted demo is active at any time, so a
\* startDemo issued while a run has not yet terminated starts no second run.
C33_OneDemoRun == Cardinality(demo.runs) <= 1

\* C34: every active run stays abortable by stopDemo until it terminates (it
\* is aborted already or abortController is its controller), and the step in
\* which a run terminates leaves isRunning false, abortController null, the
\* demo mode of the HUD 'normal' and no scripted decoration displayed.
C34_RunsAbortableAndReset ==
    /\ [](\A r \in demo.runs : r.aborted \/ demo.abortController = r.id)
    /\ [][(\E r \in demo.runs : \A q \in demo'.runs : q.id # r.id) =>
             /\ ~demo'.isRunning
             /\ demo'.abortController = 0
             /\ demoMode' = "normal"
             /\ ~demo'.scripted]_vars

====
